---- MODULE Spec2Model ----
(***************************************************************************)
(* A model of pdf_compressor.py: main(), compress_smart() and              *)
(* compress_aggressive().  One behaviour is one process run.  The command  *)
(* line, the document read from the input file and the faults raised by    *)
(* the PDF / codec libraries are the inputs.                               *)
(***************************************************************************)
EXTENDS Integers, Sequences, FiniteSets, TLC

\* ------------------------------------------------------------------ bounds
MaxPages == 2

\* --------------------------------------------------------------- constants
MinQuality == 1
MaxQuality == 95

COMPRESSION_PROFILES ==
    [p \in {"low", "medium", "high", "best"} |->
        CASE p = "low" -> 20
          [] p = "medium" -> 40
          [] p = "high" -> 60
          [] p = "best" -> 80]

Profiles == DOMAIN COMPRESSION_PROFILES
Modes == {"smart", "aggressive"}

\* args.quality: <<>> is None (option absent), <<q>> is the parsed integer.
QualityArgs == {<<>>, <<-5>>, <<0>>, <<1>>, <<95>>, <<96>>}

\* ------------------------------------------------------- input documents
\* The cross-reference numbers of the image resources of a document.
Xrefs == {1, 2}

\* page.get_images(): the image references of one page, without duplicates.
RECURSIVE SetToSeq(_)
SetToSeq(S) ==
    IF S = {} THEN <<>>
    ELSE LET m == CHOOSE x \in S : \A y \in S : x <= y
         IN <<m>> \o SetToSeq(S \ {m})

ImageLists == {SetToSeq(S) : S \in SUBSET Xrefs}

\* page.rect as <<width, height>>; neither is square, so a transposition shows.
Rects == {<<1, 2>>, <<2, 1>>}

\* What each compressor reads of a document: compress_smart reads every page's
\* image list (line 76), compress_aggressive every page's rect (lines 119-129).
SmartPages == [images : ImageLists]

AggPages == {[width |-> r[1], height |-> r[2]] : r \in Rects}

SmartDocs == UNION {[1..n -> SmartPages] : n \in 0..MaxPages}

AggDocs == UNION {[1..n -> AggPages] : n \in 0..MaxPages}

Docs(mode) == IF mode = "smart" THEN SmartDocs ELSE AggDocs

\* The bytes of an image resource: which resource they came from, how many
\* times they went through the JPEG encoder and at which quality last.
OriginalBytes(x) == [src |-> x, passes |-> 0, q |-> 0]

\* Image.open(...).save(format="JPEG", quality=quality): a lossy re-encoding.
Recompress(bytes, quality) ==
    [src |-> bytes.src, passes |-> bytes.passes + 1, q |-> quality]

VARIABLES
    pc,            \* position in main
    args_input_ok, \* os.path.isfile(args.input_file)
    args_quality,  \* args.quality
    args_profile,  \* args.profile
    args_mode,     \* args.mode
    quality_val, profile_name,
    dir_exists,    \* os.path.exists(output_dir)
    dir_created,   \* os.makedirs ran in this run
    file,          \* what is at output_path: "none", "partial", "complete"
    wrote,         \* something was written at output_path in this run
    doc_set,       \* doc is not None
    doc,           \* the pages of the input Document
    res,           \* the input Document's image resources, xref -> bytes
    doc_open,      \* the input handle is open
    opens,         \* number of input handles opened so far
    out_set,       \* output_doc is bound
    output_doc,    \* the pages of the output Document
    out_open,      \* the output handle is open
    page_num, img_index, image_count, total_images,
    attempts,      \* the per-image attempts of compress_smart, in order
    call,          \* the compression call issued: <<>> or <<function, quality>>
    save_calls,    \* number of save calls issued
    fault,         \* the exception raised inside main's try block, if any
    failed_page,   \* aggressive mode: the page whose rendering raised, or 0
    success,       \* main's success flag: "unset", "true", "false"
    reported,      \* the banner printed: "none", "success", "failed"
    exit_code      \* <<>> while running, <<code>> once the process has ended

vars == <<pc, args_input_ok, args_quality, args_profile, args_mode, quality_val,
          profile_name, dir_exists, dir_created, file, wrote, doc_set, doc, res,
          doc_open, opens, out_set, output_doc, out_open, page_num, img_index,
          image_count, total_images, attempts, call, save_calls, fault,
          failed_page, success, reported, exit_code>>

argVars == <<args_input_ok, args_quality, args_profile, args_mode>>
fsVars == <<dir_exists, dir_created, file, wrote>>
docVars == <<doc_set, doc, res, doc_open, opens>>
outVars == <<out_set, output_doc, out_open>>
loopVars == <<page_num, img_index, image_count, total_images, attempts>>

Init ==
    /\ pc = "check_input"
    /\ args_input_ok \in BOOLEAN
    /\ args_quality \in QualityArgs
    /\ args_profile \in Profiles
    /\ args_mode \in Modes
    /\ quality_val = 0
    /\ profile_name = ""
    /\ dir_exists \in BOOLEAN
    /\ dir_created = FALSE
    /\ file = "none"
    /\ wrote = FALSE
    /\ doc_set = FALSE
    /\ doc = <<>>
    /\ res = [x \in Xrefs |-> OriginalBytes(x)]
    /\ doc_open = FALSE
    /\ opens = 0
    /\ out_set = FALSE
    /\ output_doc = <<>>
    /\ out_open = FALSE
    /\ page_num = 0
    /\ img_index = 0
    /\ image_count = 0
    /\ total_images = 0
    /\ attempts = <<>>
    /\ call = <<>>
    /\ save_calls = 0
    /\ fault = "none"
    /\ failed_page = 0
    /\ success = "unset"
    /\ reported = "none"
    /\ exit_code = <<>>

\* sys.exit(code)
SysExit(code) ==
    /\ pc' = "exited"
    /\ exit_code' = <<code>>

\* lines 183-185
CheckInputFile ==
    /\ pc = "check_input"
    /\ IF ~args_input_ok
         THEN SysExit(1)
         ELSE pc' = "check_quality" /\ UNCHANGED exit_code
    /\ UNCHANGED <<argVars, quality_val, profile_name, fsVars, docVars, outVars,
                   loopVars, call, save_calls, fault, failed_page, success, reported>>

\* `if args.quality:` -- None and 0 are both false in Python.
QualityTruthy(a) == Len(a) = 1 /\ a[1] # 0

\* `1 <= args.quality <= 95`
QualityInRangeNoLower(q) == q <= MaxQuality

QualityInRange(q) == MinQuality <= q /\ q <= MaxQuality

\* lines 187-195
ValidateQuality ==
    /\ pc = "check_quality"
    /\ IF QualityTruthy(args_quality)
         THEN IF ~QualityInRange(args_quality[1])
                THEN SysExit(1) /\ UNCHANGED <<quality_val, profile_name>>
                ELSE /\ quality_val' = args_quality[1]
                     /\ profile_name' = "custom"
                     /\ pc' = "get_output_path"
                     /\ UNCHANGED exit_code
         ELSE /\ quality_val' = COMPRESSION_PROFILES[args_profile]
              /\ profile_name' = args_profile
              /\ pc' = "get_output_path"
              /\ UNCHANGED exit_code
    /\ UNCHANGED <<argVars, fsVars, docVars, outVars, loopVars, call, save_calls,
                   fault, failed_page, success, reported>>

\* lines 207-209 with get_output_path (lines 40-54): os.makedirs may raise OSError.
GetOutputPath ==
    /\ pc = "get_output_path"
    /\ \/ /\ dir_exists
          /\ pc' = "open"
          /\ UNCHANGED <<dir_exists, dir_created, exit_code>>
       \/ /\ ~dir_exists
          /\ dir_exists' = TRUE
          /\ dir_created' = TRUE
          /\ pc' = "open"
          /\ UNCHANGED exit_code
       \/ /\ ~dir_exists
          /\ SysExit(1)
          /\ UNCHANGED <<dir_exists, dir_created>>
    /\ UNCHANGED <<argVars, quality_val, profile_name, file, wrote, docVars, outVars,
                   loopVars, call, save_calls, fault, failed_page, success, reported>>

\* line 217, then the dispatch of lines 219-227 on args.mode.
OpenDocument ==
    /\ pc = "open"
    /\ \/ \E d \in Docs(args_mode) :
            /\ doc_set' = TRUE
            /\ doc' = d
            /\ doc_open' = TRUE
            /\ opens' = opens + 1
            /\ call' = <<IF args_mode = "smart" THEN "compress_smart"
                         ELSE "compress_aggressive", quality_val>>
            /\ pc' = IF args_mode = "smart" THEN "smart" ELSE "agg_create"
            /\ UNCHANGED fault
       \/ /\ fault' = "open"
          /\ pc' = "except"
          /\ UNCHANGED <<doc_set, doc, doc_open, opens, call>>
    /\ UNCHANGED <<argVars, quality_val, profile_name, fsVars, res, outVars, loopVars,
                   save_calls, failed_page, success, reported, exit_code>>

\* The references of the page being walked (page_num is 1-based; 0: not entered).
CurrentImages == IF page_num = 0 THEN <<>> ELSE doc[page_num].images

\* line 92: page.update_image(bytes, xref=xref) rewrites the shared resource.
UpdateImageDropped(r, xref, bytes) == r

UpdateImage(r, xref, bytes) == [r EXCEPT ![xref] = bytes]

\* line 93, skipped by the `except Exception: continue` of lines 94-96.
CountEveryAttempt(n, ok) == n + 1

CountRecompressed(n, ok) == IF ok THEN n + 1 ELSE n

\* lines 72-76: the outer loop moves to the next page and lists its images.
SmartNextPage ==
    /\ pc = "smart"
    /\ img_index = Len(CurrentImages)
    /\ page_num < Len(doc)
    /\ page_num' = page_num + 1
    /\ img_index' = 0
    /\ UNCHANGED <<pc, argVars, quality_val, profile_name, fsVars, docVars, outVars,
                   image_count, total_images, attempts, call, save_calls, fault,
                   failed_page, success, reported, exit_code>>

\* line 76: page.get_images() is outside the per-image try and may raise.
SmartGetImagesFail ==
    /\ pc = "smart"
    /\ img_index = Len(CurrentImages)
    /\ page_num < Len(doc)
    /\ fault' = "get_images"
    /\ pc' = "except"
    /\ UNCHANGED <<argVars, quality_val, profile_name, fsVars, docVars, outVars,
                   loopVars, call, save_calls, failed_page, success, reported,
                   exit_code>>

\* lines 77-96: one image; ok = FALSE is any exception of lines 82-93.
SmartImage ==
    /\ pc = "smart"
    /\ img_index < Len(CurrentImages)
    /\ \E ok \in BOOLEAN :
         LET xref == CurrentImages[img_index + 1]
             image_bytes == res[xref]
             new_res == IF ok
                          THEN UpdateImage(res, xref, Recompress(image_bytes, quality_val))
                          ELSE res
         IN /\ total_images' = total_images + 1
            /\ res' = new_res
            /\ image_count' = CountRecompressed(image_count, ok)
            /\ attempts' = Append(attempts,
                     [page |-> page_num, xref |-> xref, ok |-> ok,
                      before |-> image_bytes, after |-> new_res[xref]])
    /\ img_index' = img_index + 1
    /\ UNCHANGED <<pc, argVars, quality_val, profile_name, fsVars, doc_set, doc,
                   doc_open, opens, outVars, page_num, call, save_calls, fault,
                   failed_page, success, reported, exit_code>>

\* lines 98-99: the loop is exhausted and compress_smart returns.
SmartReturn ==
    /\ pc = "smart"
    /\ img_index = Len(CurrentImages)
    /\ page_num = Len(doc)
    /\ pc' = "smart_save"
    /\ UNCHANGED <<argVars, quality_val, profile_name, fsVars, docVars, outVars,
                   loopVars, call, save_calls, fault, failed_page, success, reported,
                   exit_code>>

\* Document.save(path): completes, raises before writing, or raises midway.
SaveOutcomes == {"ok", "fail_clean", "fail_partial"}

FileAfterSave(f, outcome) ==
    CASE outcome = "ok" -> "complete"
      [] outcome = "fail_partial" -> "partial"
      [] outcome = "fail_clean" -> f

\* line 223, then line 231 when it returns.
SmartSave ==
    /\ pc = "smart_save"
    /\ save_calls' = save_calls + 1
    /\ \E o \in SaveOutcomes :
         /\ file' = FileAfterSave(file, o)
         /\ wrote' = (wrote \/ o # "fail_clean")
         /\ IF o = "ok"
              THEN success' = "true" /\ pc' = "finally" /\ UNCHANGED fault
              ELSE fault' = "save" /\ pc' = "except" /\ UNCHANGED success
    /\ UNCHANGED <<argVars, quality_val, profile_name, dir_exists, dir_created,
                   docVars, outVars, loopVars, call, failed_page, reported, exit_code>>

\* line 113: output_doc = fitz.open()
AggCreate ==
    /\ pc = "agg_create"
    /\ out_set' = TRUE
    /\ output_doc' = <<>>
    /\ out_open' = TRUE
    /\ pc' = "agg"
    /\ UNCHANGED <<argVars, quality_val, profile_name, fsVars, docVars, loopVars,
                   call, save_calls, fault, failed_page, success, reported, exit_code>>

\* line 128: output_doc.new_page(width=..., height=...) appends at the end.
NewPageTransposed(out, page) ==
    Append(out, [width |-> page.height, height |-> page.width])

NewPage(out, page) ==
    Append(out, [width |-> page.width, height |-> page.height])

\* lines 114-129: one page; a raise of lines 119-129 is not caught here.
AggPage ==
    /\ pc = "agg"
    /\ page_num < Len(doc)
    /\ \/ /\ output_doc' = NewPage(output_doc, doc[page_num + 1])
          /\ page_num' = page_num + 1
          /\ UNCHANGED <<pc, fault, failed_page>>
       \/ /\ fault' = "render"
          /\ failed_page' = page_num + 1
          /\ pc' = "except"
          /\ UNCHANGED <<output_doc, page_num>>
    /\ UNCHANGED <<argVars, quality_val, profile_name, fsVars, docVars, out_set,
                   out_open, img_index, image_count, total_images, attempts, call,
                   save_calls, success, reported, exit_code>>

\* line 131
AggReturn ==
    /\ pc = "agg"
    /\ page_num = Len(doc)
    /\ pc' = "agg_save"
    /\ UNCHANGED <<argVars, quality_val, profile_name, fsVars, docVars, outVars,
                   loopVars, call, save_calls, fault, failed_page, success, reported,
                   exit_code>>

\* line 228
AggSave ==
    /\ pc = "agg_save"
    /\ save_calls' = save_calls + 1
    /\ \E o \in SaveOutcomes :
         /\ file' = FileAfterSave(file, o)
         /\ wrote' = (wrote \/ o # "fail_clean")
         /\ IF o = "ok"
              THEN pc' = "agg_close" /\ UNCHANGED fault
              ELSE fault' = "save" /\ pc' = "except"
    /\ UNCHANGED <<argVars, quality_val, profile_name, dir_exists, dir_created,
                   docVars, outVars, loopVars, call, failed_page, success, reported,
                   exit_code>>

\* line 229, then line 231
AggClose ==
    /\ pc = "agg_close"
    /\ out_open' = FALSE
    /\ success' = "true"
    /\ pc' = "finally"
    /\ UNCHANGED <<argVars, quality_val, profile_name, fsVars, docVars, out_set,
                   output_doc, loopVars, call, save_calls, fault, failed_page,
                   reported, exit_code>>

\* line 234
SuccessOnErrorTrue == "true"

SuccessOnError == "false"

\* lines 232-234
Except ==
    /\ pc = "except"
    /\ success' = SuccessOnError
    /\ pc' = "finally"
    /\ UNCHANGED <<argVars, quality_val, profile_name, fsVars, docVars, outVars,
                   loopVars, call, save_calls, fault, failed_page, reported, exit_code>>

\* `if doc:` -- fitz.Document has __len__ (used at line 73) and no __bool__, so
\* its truth value is len(doc) > 0.
DocTruthy(is_set, pages) == is_set /\ Len(pages) > 0

\* lines 235-237
Finally ==
    /\ pc = "finally"
    /\ doc_open' = IF DocTruthy(doc_set, doc) THEN FALSE ELSE doc_open
    /\ pc' = "report"
    /\ UNCHANGED <<argVars, quality_val, profile_name, fsVars, doc_set, doc, res,
                   opens, outVars, loopVars, call, save_calls, fault, failed_page,
                   success, reported, exit_code>>

\* lines 255-256: `if os.path.exists(output_path): os.remove(output_path)`
CleanUpSkipped(f) == f

CleanUp(f) == "none"

\* lines 240-257, after which main returns and the interpreter exits with 0.
Report ==
    /\ pc = "report"
    /\ IF success = "true" /\ file # "none"
         THEN reported' = "success" /\ UNCHANGED file
         ELSE reported' = "failed" /\ file' = CleanUp(file)
    /\ pc' = "exited"
    /\ exit_code' = <<0>>
    /\ UNCHANGED <<argVars, quality_val, profile_name, dir_exists, dir_created, wrote,
                   docVars, outVars, loopVars, call, save_calls, fault, failed_page,
                   success>>

Next ==
    \/ CheckInputFile
    \/ ValidateQuality
    \/ GetOutputPath
    \/ OpenDocument
    \/ SmartNextPage
    \/ SmartGetImagesFail
    \/ SmartImage
    \/ SmartReturn
    \/ SmartSave
    \/ AggCreate
    \/ AggPage
    \/ AggReturn
    \/ AggSave
    \/ AggClose
    \/ Except
    \/ Finally
    \/ Report

Spec == Init /\ [][Next]_vars

TypeOK ==
    /\ pc \in {"check_input", "check_quality", "get_output_path", "open", "smart",
               "smart_save", "agg_create", "agg", "agg_save", "agg_close", "except",
               "finally", "report", "exited"}
    /\ file \in {"none", "partial", "complete"}
    /\ success \in {"unset", "true", "false"}
    /\ doc \in Docs(args_mode)

\* ================================================================ properties

\* The image references of a document in document order, as <<page, xref>>.
RECURSIVE RefsInOrder(_, _)
RefsInOrder(d, n) ==
    IF n = 0 THEN <<>>
    ELSE RefsInOrder(d, n - 1) \o
         [i \in 1..Len(d[n].images) |-> <<n, d[n].images[i]>>]

AllRefs == RefsInOrder(doc, Len(doc))

AttemptIdx == 1..Len(attempts)
FailedIdx == {i \in AttemptIdx : ~attempts[i].ok}
OkIdx == {i \in AttemptIdx : attempts[i].ok}

\* Control is past the return of compress_smart / compress_aggressive.
SmartReturned == args_mode = "smart" /\ (pc = "smart_save" \/ save_calls > 0)
AggReturned == args_mode = "aggressive" /\ (pc = "agg_save" \/ save_calls > 0)

InvalidQualityArg ==
    Len(args_quality) = 1 /\ ~(1 <= args_quality[1] /\ args_quality[1] <= 95)

\* C1: the exit code is 0 on success and 1 on a missing input file, an invalid
\* quality or a compression error; after a compression error the partial
\* output file is removed and the process exits with 1.
C1_ExitCodes ==
    pc = "exited" =>
        /\ reported = "success" => exit_code = <<0>>
        /\ (~args_input_ok \/ InvalidQualityArg \/ fault # "none") => exit_code = <<1>>
        /\ fault # "none" => file = "none"

\* C2: for every --quality outside 1..95 (0 included) the process reports
\* failure, issues no compression call and no save, creates no output
\* directory and writes no output file.
C2_InvalidQualityRejected ==
    InvalidQualityArg =>
        /\ call = <<>>
        /\ save_calls = 0
        /\ ~dir_created
        /\ ~wrote
        /\ pc = "exited" => exit_code = <<1>>

\* C3: whatever --quality and --profile are, the quality handed to
\* compress_smart or compress_aggressive is an integer in 1..95.
C3_CallQualityInRange ==
    call # <<>> => call[2] \in 1..95

\* C3 witness: --quality 0 was given and a compression call was issued.
C3_Witness == call # <<>> /\ args_quality = <<0>> /\ call[2] = 80

\* C4: in aggressive mode the document returned by compress_aggressive (and
\* so any document saved) has as many pages as the input, and its i-th page
\* has the width and height of the i-th input page.
C4_AggressiveGeometry ==
    AggReturned =>
        /\ Len(output_doc) = Len(doc)
        /\ \A i \in 1..Len(doc) :
             /\ output_doc[i].width = doc[i].width
             /\ output_doc[i].height = doc[i].height

\* C4 witness: a two-page input with pages of different shapes was saved.
C4_Witness ==
    /\ AggReturned
    /\ file = "complete"
    /\ Len(doc) = 2
    /\ doc[1].width # doc[2].width

\* C5 as stated: when compress_smart has returned it has attempted every image
\* reference, the resource of every failing occurrence holds its original
\* bytes, the resource of every other occurrence holds re-encoded bytes, and
\* total_images - image_count is the number of failing occurrences.
C5_FailingLeftOriginal ==
    SmartReturned =>
        /\ Len(attempts) = Len(AllRefs)
        /\ \A i \in FailedIdx : res[attempts[i].xref] = OriginalBytes(attempts[i].xref)
        /\ \A i \in OkIdx : res[attempts[i].xref].passes >= 1
        /\ total_images - image_count = Cardinality(FailedIdx)

\* C5 amended: a failing occurrence never ends the loop and leaves the bytes
\* of its resource as they were just before the attempt; when compress_smart
\* has returned it has attempted every reference, a resource holds its
\* original bytes exactly when no occurrence of it succeeded, and
\* total_images - image_count is the number of failing occurrences.
C5_FailingLeftUntouched ==
    /\ (args_mode = "smart" /\ fault = "none") => pc # "except"
    /\ \A i \in FailedIdx : attempts[i].after = attempts[i].before
    /\ total_images = Len(attempts)
    /\ total_images - image_count = Cardinality(FailedIdx)
    /\ SmartReturned =>
         /\ Len(attempts) = Len(AllRefs)
         /\ \A x \in Xrefs :
              (res[x] = OriginalBytes(x)) <=> (\A i \in OkIdx : attempts[i].xref # x)
         /\ \A i \in OkIdx : res[attempts[i].xref].passes >= 1

\* C5 witness: compress_smart returned after an attempt that failed was
\* followed, on a later page, by one that succeeded.
C5_Witness ==
    /\ SmartReturned
    /\ \E i \in FailedIdx : \E j \in OkIdx : attempts[i].page < attempts[j].page

\* C6: the input handle opened by main is closed on every exit path and for
\* every document, whatever its page count; none is open when the process
\* ends and at most one is ever open.
C6_InputHandleClosed ==
    /\ opens <= 1
    /\ pc = "exited" => ~doc_open

\* C7: the output handle created by compress_aggressive is closed after its
\* save completes, after its save fails and after a failure while building
\* it; none is open when the process ends.
C7_OutputHandleClosed ==
    pc = "exited" => ~out_open

\* C8: when main finishes a run that did not report success, nothing exists
\* at the output path; a file is there only if the run reported success,
\* which it does only after a save that completed.
C8_NoPartialArtifact ==
    pc = "exited" =>
        /\ reported # "success" => file = "none"
        /\ reported = "success" => (file = "complete" /\ fault = "none")
        /\ fault # "none" => reported = "failed"

\* C8 witness: a save that failed after writing part of the file, cleaned up.
C8_Witness ==
    /\ pc = "exited"
    /\ fault = "save"
    /\ wrote
    /\ file = "none"

\* C9: in aggressive mode a failure on page k leaves compress_aggressive: no
\* later page is processed, nothing is saved or written, and the run ends
\* reporting failure; no document shorter than the input is ever saved.  In
\* smart mode a failing image alone never takes the run to main's handler.
C9_AggressiveFailureAborts ==
    /\ (args_mode = "aggressive" /\ failed_page # 0) =>
         /\ pc \in {"except", "finally", "report", "exited"}
         /\ page_num = failed_page - 1
         /\ Len(output_doc) = failed_page - 1
         /\ save_calls = 0
         /\ ~wrote
         /\ pc # "except" => success = "false"
         /\ pc = "exited" => reported = "failed"
    /\ (args_mode = "aggressive" /\ save_calls > 0) => Len(output_doc) = Len(doc)
    /\ (args_mode = "smart" /\ FailedIdx # {} /\ fault = "none") =>
         (pc # "except" /\ success # "false")

\* C9 witness: the second page of a two-page input failed to render and the
\* run has ended.
C9_Witness ==
    /\ pc = "exited"
    /\ args_mode = "aggressive"
    /\ failed_page = 2
    /\ Len(doc) = 2

\* The bytes attempt i found in its resource according to the attempts before
\* it: those written by the last successful attempt on it, else the original.
BytesLeftBefore(i) ==
    LET prior == {j \in 1..(i - 1) : attempts[j].ok /\ attempts[j].xref = attempts[i].xref}
    IN IF prior = {} THEN OriginalBytes(attempts[i].xref)
       ELSE attempts[CHOOSE j \in prior : \A k \in prior : k <= j].after

\* C10: smart mode does not de-duplicate across pages: the attempts are the
\* image references of all pages in document order, total_images is their
\* number, a successful attempt writes the re-encoding of the bytes it
\* extracted, and each attempt extracts what the last successful attempt on
\* the same resource wrote.
C10_NoDeduplication ==
    /\ \A i \in AttemptIdx :
         /\ <<attempts[i].page, attempts[i].xref>> = AllRefs[i]
         /\ attempts[i].before = BytesLeftBefore(i)
         /\ attempts[i].ok => attempts[i].after = Recompress(attempts[i].before, quality_val)
    /\ SmartReturned =>
         /\ total_images = Len(AllRefs)
         /\ \A x \in Xrefs :
              res[x].passes = Cardinality({i \in OkIdx : attempts[i].xref = x})

\* C10 witness: one resource referenced by two pages was re-encoded twice.
C10_Witness ==
    /\ SmartReturned
    /\ \E i, j \in OkIdx :
         /\ attempts[i].page < attempts[j].page
         /\ attempts[i].xref = attempts[j].xref
         /\ res[attempts[i].xref].passes = 2
====
